---- MODULE Spec2Model ----
(***************************************************************************)
(* A model of the self-signed-certificate walkthrough and its HTTPS        *)
(* listener.                                                               *)
(*                                                                         *)
(*   README (src/unnamed/part_000): the openssl steps that produce         *)
(*     rootCA.key, rootCA.pem, server.key, openssl.cnf, server.csr and     *)
(*     server.crt, the trust-store installation and the curl test.         *)
(*   server.js: reads server.key and server.crt, creates the HTTPS server, *)
(*     binds port 3000 and answers each request from one handler.          *)
(*                                                                         *)
(* The file system is shared between the shell that runs the openssl steps *)
(* and the node process, so the steps of server.js interleave with them.   *)
(***************************************************************************)
EXTENDS Naturals, FiniteSets, Sequences

VARIABLES
    fs,         \* file name -> content of the working directory
    produced,   \* the files an openssl step (or the editor, openssl.cnf) has written so far
    pc,         \* position of the node process in server.js
    options,    \* server.js:5-8, the buffers read from disk
    ctx,        \* the key/certificate the created server holds
    err,        \* the exception that ended the process, "none" while it lives
    keyReads,   \* calls of fs.readFileSync('server.key')
    certReads,  \* calls of fs.readFileSync('server.crt')
    binds,      \* bind attempts on port 3000
    port,       \* who holds TCP port 3000: "free", "other", "server"
    log,        \* lines written by console.log
    trusted,    \* root certificates imported into the browser's trust store
    conns,      \* client -> its connection to port 3000
    reqs        \* client -> the request it sent last, with the response

vars == <<fs, produced, pc, options, ctx, err, keyReads, certReads, binds,
          port, log, trusted, conns, reqs>>

fsVars     == <<fs, produced>>
procVars   == <<pc, options, ctx, err, keyReads, certReads, binds, log>>
clientVars == <<trusted, conns, reqs>>

(***************************************************************************)
(* Bounds of the model.                                                    *)
(***************************************************************************)
NumKeys == 2    \* distinct key values genpkey can draw

(***************************************************************************)
(* Program constants.                                                      *)
(***************************************************************************)
STATUS_OK == 200
BODY      == "Hello, World!"
RUNNING   == "Server is running on https://localhost:3000"

KeyIds == 1..NumKeys

FileNames == {"rootCA.key", "rootCA.pem", "server.key", "openssl.cnf",
              "server.csr", "server.crt"}

(***************************************************************************)
(* File contents.  A key is identified by its key value; a certificate by  *)
(* the public key it certifies, the key that signed it and its SAN list.   *)
(***************************************************************************)
NoFile  == [kind |-> "none",    key |-> 0, signer |-> 0, san |-> {}]
Garbage == [kind |-> "garbage", key |-> 0, signer |-> 0, san |-> {}]
KeyFile(k)         == [kind |-> "key",  key |-> k, signer |-> 0, san |-> {}]
CsrFile(k, names)  == [kind |-> "csr",  key |-> k, signer |-> k, san |-> names]
CertFile(k, s, names) == [kind |-> "cert", key |-> k, signer |-> s, san |-> names]

\* README 63-64: [ alt_names ] DNS.1 = localhost
alt_names == {"localhost"}
CnfFile == [kind |-> "cnf", key |-> 0, signer |-> 0, san |-> alt_names]

Exists(f) == fs[f].kind # "none"

(***************************************************************************)
(* Initially the working directory holds none of the files, node has not   *)
(* been started, port 3000 is free and no root certificate is trusted.     *)
(***************************************************************************)
NoOptions == [key |-> NoFile, cert |-> NoFile]

\* The clients of the README, and one that speaks plain HTTP.
Clients == {"curl", "chrome", "plain"}

NoConn == [result |-> "none", cas |-> {}]
NoReq  == [method |-> "", path |-> "", expect |-> "", state |-> "none",
           handled |-> FALSE, heads |-> 0, ends |-> 0, status |-> 0,
           written |-> "", body |-> ""]

Init ==
    /\ fs = [f \in FileNames |-> NoFile]
    /\ produced = {}
    /\ pc = "off"
    /\ options = NoOptions
    /\ ctx = NoOptions
    /\ err = "none"
    /\ keyReads = 0
    /\ certReads = 0
    /\ binds = 0
    /\ port = "free"
    /\ log = << >>
    /\ trusted = {}
    /\ conns = [c \in Clients |-> NoConn]
    /\ reqs = [c \in Clients |-> NoReq]

(***************************************************************************)
(* The certificate provisioning procedure (README, steps 1-5).  A step     *)
(* whose input files are missing fails in openssl and writes nothing.      *)
(***************************************************************************)
WriteFile(f, content) ==
    /\ fs' = [fs EXCEPT ![f] = content]
    /\ produced' = produced \cup {f}

\* README 16: openssl genpkey -algorithm RSA -out rootCA.key -aes256
GenRootKey ==
    /\ \E k \in KeyIds : WriteFile("rootCA.key", KeyFile(k))
    /\ UNCHANGED <<procVars, port, clientVars>>

\* README 17: openssl req -x509 -new -nodes -key rootCA.key -sha256 -days 3650 -out rootCA.pem
SelfSignedCert(cakey) == CertFile(cakey.key, cakey.key, {})

GenRootCert ==
    /\ fs["rootCA.key"].kind = "key"
    /\ WriteFile("rootCA.pem", SelfSignedCert(fs["rootCA.key"]))
    /\ UNCHANGED <<procVars, port, clientVars>>

\* README 37: openssl genpkey -algorithm RSA -out server.key
GenServerKey ==
    /\ \E k \in KeyIds : WriteFile("server.key", KeyFile(k))
    /\ UNCHANGED <<procVars, port, clientVars>>

\* README 44-65: the SAN configuration file openssl.cnf
WriteCnf ==
    /\ WriteFile("openssl.cnf", CnfFile)
    /\ UNCHANGED <<procVars, port, clientVars>>

\* README 72: openssl req -new -key server.key -out server.csr -config openssl.cnf
SigningRequest(key, cnf) == CsrFile(key.key, cnf.san)

GenCSR ==
    /\ fs["server.key"].kind = "key"
    /\ fs["openssl.cnf"].kind = "cnf"
    /\ WriteFile("server.csr", SigningRequest(fs["server.key"], fs["openssl.cnf"]))
    /\ UNCHANGED <<procVars, port, clientVars>>

\* Step 5 run without -extensions req_ext -extfile openssl.cnf: the
\* extensions of the request are not copied into the certificate.
SignedCertNoSan(csr, cakey, cnf) == CertFile(csr.key, cakey.key, {})

\* Step 5 run with -signkey server.key in place of the CA: self-signed.
SignedCertSelf(csr, cakey, cnf) == CertFile(csr.key, csr.key, cnf.san)

\* README 89: openssl x509 -req -in server.csr -CA rootCA.pem -CAkey rootCA.key
\*   -CAcreateserial -out server.crt -days 365 -sha256 -extensions req_ext
\*   -extfile openssl.cnf
\* The certificate carries the public key of the request, the signature of
\* the CA key and the extensions of section req_ext of the -extfile.
SignedCert(csr, cakey, cnf) == CertFile(csr.key, cakey.key, cnf.san)

SignCSR ==
    /\ fs["server.csr"].kind = "csr"
    /\ fs["rootCA.pem"].kind = "cert"
    /\ fs["rootCA.key"].kind = "key"
    /\ fs["rootCA.pem"].key = fs["rootCA.key"].key  \* x509 -req refuses a CA key that does not match the CA certificate
    /\ fs["openssl.cnf"].kind = "cnf"
    /\ WriteFile("server.crt",
                 SignedCert(fs["server.csr"], fs["rootCA.key"], fs["openssl.cnf"]))
    /\ UNCHANGED <<procVars, port, clientVars>>

(***************************************************************************)
(* What else can happen to the two files server.js names (server.js:6-7):  *)
(* they are removed, or overwritten with bytes that are no PEM key or      *)
(* certificate.                                                            *)
(***************************************************************************)
ServerFiles == {"server.key", "server.crt"}

DeleteFile ==
    /\ \E f \in ServerFiles :
          /\ Exists(f)
          /\ fs' = [fs EXCEPT ![f] = NoFile]
    /\ UNCHANGED <<produced, procVars, port, clientVars>>

CorruptFile ==
    /\ \E f \in ServerFiles :
          /\ fs[f] # Garbage
          /\ fs' = [fs EXCEPT ![f] = Garbage]
    /\ UNCHANGED <<produced, procVars, port, clientVars>>

(***************************************************************************)
(* Port 3000 may be held by another program (server.js:14).                *)
(***************************************************************************)
OtherBind ==
    /\ port = "free"
    /\ port' = "other"
    /\ UNCHANGED <<fsVars, procVars, clientVars>>

OtherRelease ==
    /\ port = "other"
    /\ port' = "free"
    /\ UNCHANGED <<fsVars, procVars, clientVars>>

(***************************************************************************)
(* server.js.  An uncaught exception ends the process: nothing in the file *)
(* catches, and no 'error' listener is attached to the server.             *)
(***************************************************************************)
Throw(e) ==
    /\ pc' = "exited"
    /\ err' = e

\* README 124: node server.js
RunNode ==
    /\ pc = "off"
    /\ pc' = "L6"
    /\ UNCHANGED <<fsVars, options, ctx, err, keyReads, certReads, binds, log,
                   port, clientVars>>

\* server.js:6  key: fs.readFileSync('server.key')
ReadKey ==
    /\ pc = "L6"
    /\ keyReads' = keyReads + 1
    /\ IF Exists("server.key")
         THEN /\ options' = [options EXCEPT !.key = fs["server.key"]]
              /\ pc' = "L7"
              /\ err' = err
         ELSE /\ Throw("ENOENT")
              /\ options' = options
    /\ UNCHANGED <<fsVars, ctx, certReads, binds, log, port, clientVars>>

\* server.js:7  cert: fs.readFileSync('server.crt')
ReadCert ==
    /\ pc = "L7"
    /\ certReads' = certReads + 1
    /\ IF Exists("server.crt")
         THEN /\ options' = [options EXCEPT !.cert = fs["server.crt"]]
              /\ pc' = "L11"
              /\ err' = err
         ELSE /\ Throw("ENOENT")
              /\ options' = options
    /\ UNCHANGED <<fsVars, ctx, keyReads, binds, log, port, clientVars>>

\* A secure context that only checks that key and certificate belong together.
SecureContextMatchOnly(o) ==
    IF o.key.key # o.cert.key THEN "ERR_OSSL_KEY_VALUES_MISMATCH" ELSE "none"

\* A secure context that loads the key and leaves the certificate unparsed.
SecureContextKeyOnly(o) ==
    IF o.key.kind # "key" THEN "ERR_OSSL_PEM_KEY" ELSE "none"

\* server.js:11  https.createServer(options, handler) builds the TLS secure
\* context from options: the certificate and the key must parse as PEM and
\* the private key must belong to the certificate, else it throws.
SecureContextError(o) ==
    IF o.cert.kind # "cert" THEN "ERR_OSSL_PEM_CERT"
    ELSE IF o.key.kind # "key" THEN "ERR_OSSL_PEM_KEY"
    ELSE IF o.key.key # o.cert.key THEN "ERR_OSSL_KEY_VALUES_MISMATCH"
    ELSE "none"

CreateServer ==
    /\ pc = "L11"
    /\ IF SecureContextError(options) = "none"
         THEN /\ ctx' = options
              /\ pc' = "L14"
              /\ err' = err
         ELSE /\ Throw(SecureContextError(options))
              /\ ctx' = ctx
    /\ UNCHANGED <<fsVars, options, keyReads, certReads, binds, log, port, clientVars>>

\* A listen whose 'error' listener tries the bind again.
ListenRetry ==
    /\ pc = "L14"
    /\ binds' = binds + 1
    /\ IF port = "free"
         THEN /\ port' = "server"
              /\ pc' = "L15"
              /\ err' = err
         ELSE IF binds = 0
           THEN UNCHANGED <<pc, err, port>>
           ELSE /\ pc' = "exited"
                /\ err' = "EADDRINUSE"
                /\ port' = port
    /\ UNCHANGED <<fsVars, options, ctx, keyReads, certReads, log, clientVars>>

\* server.js:14  .listen(3000, callback): binds the port; EADDRINUSE is
\* emitted as an 'error' event, which has no listener and so is thrown.
Listen ==
    /\ pc = "L14"
    /\ binds' = binds + 1
    /\ IF port = "free"
         THEN /\ port' = "server"
              /\ pc' = "L15"
              /\ err' = err
         ELSE /\ Throw("EADDRINUSE")
              /\ port' = port
    /\ UNCHANGED <<fsVars, options, ctx, keyReads, certReads, log, clientVars>>

\* server.js:14-16  the 'listening' callback
ListenCallback ==
    /\ pc = "L15"
    /\ log' = Append(log, RUNNING)
    /\ pc' = "running"
    /\ UNCHANGED <<fsVars, options, ctx, err, keyReads, certReads, binds, port, clientVars>>

Listening == pc \in {"L15", "running"}

\* A listener that loads the certificate file anew for each handshake.
ServedCertFromDisk == fs["server.crt"]

\* The certificate the listener presents in a handshake.
ServedCert == ctx.cert

(***************************************************************************)
(* Clients.  The README's two clients both verify the server certificate: *)
(* Chrome against the roots imported into its trust store (README          *)
(* 130-176), curl against the file given with --cacert (README 193).  Both *)
(* connect to the host name localhost.  A third client speaks plain HTTP   *)
(* to the port.                                                            *)
(***************************************************************************)
HOST == "localhost"

\* README 152-168: import rootCA.pem and mark it trusted
InstallRoot ==
    /\ fs["rootCA.pem"].kind = "cert"
    /\ fs["rootCA.pem"] \notin trusted
    /\ trusted' = trusted \cup {fs["rootCA.pem"]}
    /\ UNCHANGED <<fsVars, procVars, port, conns, reqs>>

\* Certificate verification by the client: the certificate must chain to a
\* trusted root, and its SAN list must name the host connected to (README
\* 181-182).
Chains(cas, cert) == \E ca \in cas : ca.kind = "cert" /\ ca.key = cert.signer

\* A client that checks the host name but not the chain of trust.
VerifyHostOnly(cas, cert, host) ==
    IF host \notin cert.san THEN "hostname_mismatch" ELSE "ok"

Verify(cas, cert, host) ==
    IF ~ Chains(cas, cert) THEN "unknown_ca"
    ELSE IF host \notin cert.san THEN "hostname_mismatch"
    ELSE "ok"

\* The roots a client verifies against, and the scheme it speaks.
Roots(c) ==
    CASE c = "curl"   -> {fs["rootCA.pem"]}
      [] c = "chrome" -> trusted
      [] OTHER        -> {}

Scheme(c) == IF c = "plain" THEN "http" ELSE "https"

\* The outcome of opening a connection to port 3000.  The server created at
\* server.js:11 speaks TLS only.
ConnectResult(c) ==
    IF port # "server" THEN "refused"
    ELSE IF Scheme(c) # "https" THEN "not_tls"
    ELSE Verify(Roots(c), ServedCert, HOST)

Sent(c) == reqs[c].state = "sent"

\* README 193: curl -v --cacert rootCA.pem https://localhost:3000
\* README 128-176: Chrome opening https://localhost:3000
\* A connection made after the bind and before the listen callback waits in
\* the backlog: the event loop accepts it once the callback has run.
Connect ==
    /\ port = "free" \/ pc = "running"
    /\ \E c \in Clients :
          /\ ~ Sent(c)
          /\ c = "curl" => fs["rootCA.pem"].kind = "cert"
          /\ conns' = [conns EXCEPT ![c] = [result |-> ConnectResult(c), cas |-> Roots(c)]]
          /\ reqs' = [reqs EXCEPT ![c] = NoReq]
    /\ UNCHANGED <<fsVars, procVars, port, trusted>>

(***************************************************************************)
(* Requests.  A client sends one request at a time on its established      *)
(* connection.                                                             *)
(***************************************************************************)
Methods == {"GET", "POST", "HEAD", "CONNECT"}
Paths   == {"/", "/missing"}
Expects == {"", "100-continue", "unsupported"}

NewRequest(m, p, e) == [NoReq EXCEPT !.method = m, !.path = p, !.expect = e, !.state = "sent"]

SendRequest ==
    /\ \E c \in Clients, m \in Methods, p \in Paths, e \in Expects :
          /\ conns[c].result = "ok"
          /\ ~ Sent(c)
          /\ reqs' = [reqs EXCEPT ![c] = NewRequest(m, p, e)]
    /\ UNCHANGED <<fsVars, procVars, port, trusted, conns>>

\* A handler that answers 404 for every path but the root.
handlerRouted(r) ==
    [r EXCEPT !.handled = TRUE,
              !.heads   = @ + 1,
              !.status  = IF r.path = "/" THEN STATUS_OK ELSE 404,
              !.ends    = @ + 1,
              !.written = IF r.path = "/" THEN BODY ELSE "",
              !.body    = IF r.method = "HEAD" \/ r.path # "/" THEN "" ELSE BODY,
              !.state   = "answered"]

\* A handler that keeps the response of the request before in a variable
\* of the module and writes the head to it as well.
handlerShared(r) ==
    [r EXCEPT !.handled = TRUE,
              !.heads   = @ + 1 + Cardinality({d \in Clients : reqs[d].handled}),
              !.status  = STATUS_OK,
              !.ends    = @ + 1,
              !.written = BODY,
              !.body    = IF r.method = "HEAD" THEN "" ELSE BODY,
              !.state   = "answered"]

\* server.js:11-14  the request handler
\*     (req, res) => { res.writeHead(200); res.end('Hello, World!'); }
\* The body passed to res.end is not transmitted in reply to HEAD.
handler(r) ==
    [r EXCEPT !.handled = TRUE,
              !.heads   = @ + 1,
              !.status  = STATUS_OK,
              !.ends    = @ + 1,
              !.written = BODY,
              !.body    = IF r.method = "HEAD" THEN "" ELSE BODY,
              !.state   = "answered"]

\* What the server created at server.js:11 does with a request: CONNECT is
\* emitted as 'connect', which has no listener, so the connection is closed;
\* an Expect header other than 100-continue is answered 417 by the library,
\* since no 'checkExpectation' listener is attached; every other request is
\* emitted as 'request' and reaches the handler.
Dispatch(r) ==
    IF r.method = "CONNECT" THEN [r EXCEPT !.state = "closed"]
    ELSE IF r.expect = "unsupported"
      THEN [r EXCEPT !.state = "answered", !.status = 417]
    ELSE handler(r)

Serve ==
    /\ pc = "running"
    /\ \E c \in Clients :
          /\ Sent(c)
          /\ reqs' = [reqs EXCEPT ![c] = Dispatch(reqs[c])]
          /\ conns' = IF reqs'[c].state = "closed"
                        THEN [conns EXCEPT ![c].result = "closed"]
                        ELSE conns
    /\ UNCHANGED <<fsVars, procVars, port, trusted>>

Provision == GenRootKey \/ GenRootCert \/ GenServerKey \/ WriteCnf \/ GenCSR \/ SignCSR
Tamper    == DeleteFile \/ CorruptFile
Other     == OtherBind \/ OtherRelease
Node      == RunNode \/ ReadKey \/ ReadCert \/ CreateServer \/ Listen \/ ListenCallback
Client    == InstallRoot \/ Connect \/ SendRequest

(***************************************************************************)
(* Spec: the provisioning procedure, with steps re-run in any order, and   *)
(* the start of the listener, interleaved.                                 *)
(***************************************************************************)
Next == Provision \/ Tamper \/ Other \/ Node

Spec == Init /\ [][Next]_vars

(***************************************************************************)
(* SpecServe: the listener started in a working directory the procedure    *)
(* has left behind, and its clients.  The directory holds a root           *)
(* certificate, and for server.key and server.crt any content Spec can     *)
(* leave there: missing, damaged, a key and a certificate that do or do    *)
(* not belong together, a certificate signed by this root or by an earlier *)
(* one.  Each of these directories is reachable under Spec with node not   *)
(* yet started.  Nothing writes to the directory while the listener and    *)
(* its clients run.                                                        *)
(***************************************************************************)
KeyContents  == {NoFile, Garbage} \cup {KeyFile(k) : k \in KeyIds}
CertContents == {NoFile, Garbage} \cup
                {SignedCert(CsrFile(k, alt_names), KeyFile(s), CnfFile) : k, s \in KeyIds}

Directory(rk, key, cert) ==
    [f \in FileNames |->
        CASE f = "rootCA.key"  -> KeyFile(rk)
          [] f = "rootCA.pem"  -> SelfSignedCert(KeyFile(rk))
          [] f = "server.key"  -> key
          [] f = "openssl.cnf" -> CnfFile
          [] f = "server.csr"  -> CsrFile(IF cert.kind = "cert" THEN cert.key ELSE rk, alt_names)
          [] OTHER             -> cert]

InitServe ==
    /\ \E rk \in KeyIds, key \in KeyContents, cert \in CertContents :
          fs = Directory(rk, key, cert)
    /\ produced = FileNames
    /\ pc = "off"
    /\ options = NoOptions
    /\ ctx = NoOptions
    /\ err = "none"
    /\ keyReads = 0
    /\ certReads = 0
    /\ binds = 0
    /\ port = "free"
    /\ log = << >>
    /\ trusted = {}
    /\ conns = [c \in Clients |-> NoConn]
    /\ reqs = [c \in Clients |-> NoReq]

NextServe == Node \/ Other \/ Client \/ Serve

SpecServe == InitServe /\ [][NextServe]_vars

(***************************************************************************)
(* Claims.                                                                 *)
(***************************************************************************)
Answered(c) == reqs[c].state \notin {"none", "sent"}

\* C1, as stated: once the listener runs with a valid pair, every request
\* the server has dealt with, whatever its method, path and headers, got
\* status 200 and the body 'Hello, World!'.
C1_EveryRequestGetsHello ==
    \A c \in Clients :
        Answered(c) => reqs[c].status = STATUS_OK /\ reqs[c].body = BODY

\* C1, amended: every request with a method other than CONNECT and without
\* an unsupported Expect header, whatever its path, is answered with status
\* 200 by a handler that ends the response with 'Hello, World!'; the body
\* reaches the client unless the method is HEAD, whose response has no body.
C1_DispatchedRequestGetsHello ==
    \A c \in Clients :
        (Answered(c) /\ reqs[c].method # "CONNECT" /\ reqs[c].expect # "unsupported")
        => /\ reqs[c].status = STATUS_OK
           /\ reqs[c].written = BODY
           /\ reqs[c].body = IF reqs[c].method = "HEAD" THEN "" ELSE BODY

C1_Witness ==
    /\ SecureContextError(ctx) = "none"
    /\ reqs["curl"].state = "answered"
    /\ reqs["curl"].method = "POST"
    /\ reqs["curl"].path = "/missing"
    /\ reqs["curl"].body = BODY
    /\ reqs["chrome"].state = "answered"
    /\ reqs["chrome"].method = "HEAD"
    /\ reqs["chrome"].status = STATUS_OK

\* server.key holds no key, or server.crt no certificate.
BadPair == fs["server.key"].kind # "key" \/ fs["server.crt"].kind # "cert"

\* C2: when server.key or server.crt is missing or corrupt in the directory
\* the listener is started in, no server is created, port 3000 is never
\* bound by the process, nothing is logged, every connection attempt is
\* refused and no request is sent or answered, over TLS or in plaintext.
C2_BadPairNeverListens ==
    BadPair =>
        /\ pc \notin {"L14", "L15", "running"}
        /\ port # "server"
        /\ binds = 0
        /\ log = << >>
        /\ pc = "exited" => err \in {"ENOENT", "ERR_OSSL_PEM_CERT", "ERR_OSSL_PEM_KEY"}
        /\ \A c \in Clients :
              /\ conns[c].result \in {"none", "refused"}
              /\ reqs[c] = NoReq

C2_Witness ==
    /\ fs["server.key"].kind = "key"
    /\ fs["server.crt"] = Garbage
    /\ pc = "exited"
    /\ err = "ERR_OSSL_PEM_CERT"
    /\ conns["plain"].result = "refused"
    /\ conns["curl"].result = "refused"

\* C3: the listener is listening only after every step of the provisioning
\* procedure has written its file, server.key and server.crt among them,
\* and the bind of port 3000 is attempted only after both files were read.
C3_ListenOnlyAfterProvisioning ==
    /\ binds > 0 => keyReads = 1 /\ certReads = 1
    /\ Listening =>
          /\ binds = 1
          /\ port = "server"
          /\ produced = FileNames
          /\ options.key.kind = "key"
          /\ options.cert.kind = "cert"

C3_Witness ==
    /\ pc = "running"
    /\ produced = FileNames
    /\ ~ Exists("server.key")

C5_UntrustingClientFails ==
    \A c \in Clients :
        ( /\ Scheme(c) = "https"
          /\ conns[c].result \notin {"none", "refused"}
          /\ ~ Chains(conns[c].cas, ServedCert) )
        => /\ conns[c].result = "unknown_ca"
           /\ reqs[c] = NoReq

C5_Witness ==
    /\ pc = "running"
    /\ conns["chrome"].result = "unknown_ca"
    /\ conns["chrome"].cas = {}
    /\ conns["curl"].result = "unknown_ca"
    /\ conns["curl"].cas = {fs["rootCA.pem"]}

\* The step the process is about to take fails.
StartupFailure ==
    \/ pc = "L6"  /\ ~ Exists("server.key")
    \/ pc = "L7"  /\ ~ Exists("server.crt")
    \/ pc = "L11" /\ SecureContextError(options) # "none"
    \/ pc = "L14" /\ port # "free"

\* C6: a failure during startup (a file not found, a malformed or
\* mismatched key/certificate, port 3000 held by another program) ends the
\* process at that step; the process reads each file and tries the bind at
\* most once, and once it has exited it stays exited and never listens.
C6_FailureTerminates ==
    /\ [](/\ keyReads <= 1 /\ certReads <= 1 /\ binds <= 1
          /\ (pc = "exited") <=> (err # "none")
          /\ pc = "exited" => port # "server" /\ log = << >>)
    /\ [][ /\ (StartupFailure /\ pc' # pc) => pc' = "exited"
           /\ pc = "exited" => UNCHANGED procVars ]_vars

C6_Witness ==
    /\ pc = "exited"
    /\ err = "EADDRINUSE"
    /\ port = "free"
    /\ fs["server.key"].kind = "key"
    /\ fs["server.crt"].kind = "cert"
    /\ SecureContextError([key |-> fs["server.key"], cert |-> fs["server.crt"]]) = "none"

\* C8: the handler keeps no state: every request it handles has its head
\* written once with status 200 and is ended once with 'Hello, World!',
\* whatever other requests are in flight or were answered before; a request
\* it has not handled has no head and no end; handling one client's request
\* changes no other client's request or response, and a completed response
\* stays as it is until its client sends again or reconnects.
C8_OneResponsePerRequest ==
    /\ [](\A c \in Clients :
            /\ reqs[c].handled =>
                  /\ reqs[c].state = "answered"
                  /\ reqs[c].heads = 1
                  /\ reqs[c].ends = 1
                  /\ reqs[c].status = STATUS_OK
                  /\ reqs[c].written = BODY
            /\ ~ reqs[c].handled => reqs[c].heads = 0 /\ reqs[c].ends = 0)
    /\ [][\A c \in Clients :
            /\ (Sent(c) /\ ~ Sent(c)') =>
                  \A d \in Clients \ {c} : reqs'[d] = reqs[d] /\ conns'[d] = conns[d]
            /\ (reqs[c].handled /\ reqs'[c].state \notin {"none", "sent"}) =>
                  reqs'[c] = reqs[c]]_vars

C8_Witness ==
    /\ reqs["curl"].handled
    /\ reqs["curl"].method = "GET"
    /\ reqs["curl"].heads = 1
    /\ reqs["curl"].ends = 1
    /\ Sent("chrome")
    /\ reqs["chrome"].method = "POST"
    /\ reqs["chrome"].path = "/missing"

\* A step writes file f.
Written(f) == fs'[f] # fs[f] /\ fs'[f].kind \notin {"none", "garbage"}

\* C9: each file of the procedure is written only when the files its step
\* reads exist: rootCA.pem after rootCA.key; server.csr after server.key
\* and openssl.cnf; server.crt after server.csr, rootCA.key, rootCA.pem and
\* openssl.cnf.  The server.crt written carries the public key of the
\* request, the signature of the root CA and the SAN list of openssl.cnf,
\* and the key and certificate the listener loads are the contents of
\* server.key and server.crt.
C9_ProvisioningOrder ==
    /\ [](/\ "rootCA.pem" \in produced => "rootCA.key" \in produced
          /\ "server.csr" \in produced => {"server.key", "openssl.cnf"} \subseteq produced
          /\ "server.crt" \in produced => produced = FileNames
          /\ fs["server.crt"].kind = "cert" =>
                /\ HOST \in fs["server.crt"].san
                /\ fs["server.crt"].signer \in KeyIds)
    /\ [][ /\ Written("rootCA.pem") =>
                /\ Exists("rootCA.key")
                /\ fs'["rootCA.pem"] = CertFile(fs["rootCA.key"].key, fs["rootCA.key"].key, {})
           /\ Written("server.csr") =>
                /\ Exists("server.key") /\ Exists("openssl.cnf")
                /\ fs'["server.csr"].key = fs["server.key"].key
           /\ Written("server.crt") =>
                /\ Exists("server.csr") /\ Exists("rootCA.key")
                /\ Exists("rootCA.pem") /\ Exists("openssl.cnf")
                /\ fs'["server.crt"].kind = "cert"
                /\ fs'["server.crt"].key = fs["server.csr"].key
                /\ fs'["server.crt"].signer = fs["rootCA.key"].key
                /\ fs'["server.crt"].signer = fs["rootCA.pem"].key
                /\ fs'["server.crt"].san = {HOST}
           /\ options'.key # options.key => options'.key = fs["server.key"]
           /\ options'.cert # options.cert => options'.cert = fs["server.crt"] ]_vars

C9_Witness ==
    /\ fs["server.crt"].kind = "cert"
    /\ fs["server.crt"].key # fs["server.crt"].signer
    /\ fs["server.crt"].signer = fs["rootCA.pem"].key
    /\ options.key = fs["server.key"]
    /\ options.cert = fs["server.crt"]
    /\ pc = "running"

\* C10: each of the two files is read once, before the server is created;
\* while the listener is listening, no change to server.key or server.crt
\* on disk changes the key or the certificate it serves or ends its
\* listening; the 'Server is running' line is logged once, only after the
\* bind of port 3000 succeeded.
C10_ReadOnceAtStartup ==
    /\ [](/\ keyReads <= 1 /\ certReads <= 1
          /\ pc \in {"L11", "L14", "L15", "running"} => keyReads = 1 /\ certReads = 1
          /\ pc \in {"L14", "L15", "running"} => ctx = options
          /\ log \in {<< >>, <<RUNNING>>}
          /\ log # << >> => binds = 1 /\ port = "server")
    /\ [][Listening =>
            /\ Listening'
            /\ ServedCert' = ServedCert
            /\ ctx' = ctx
            /\ port' = "server"
            /\ keyReads' = keyReads /\ certReads' = certReads]_vars

C10_Witness ==
    /\ pc = "running"
    /\ log = <<RUNNING>>
    /\ fs["server.crt"].kind = "cert"
    /\ fs["server.crt"] # ServedCert
    /\ fs["server.key"] = Garbage
    /\ ServedCert.kind = "cert"

====
